---- MODULE Spec2Model ----
(***************************************************************************)
(* Team Builder: a React root component (App) that owns the list of team   *)
(* members, a list view (TeamMembers) and a controlled entry form (Form).  *)
(*                                                                         *)
(* The model keeps React's hook state apart from the values the handlers   *)
(* closed over at the last render: handleChange, handleSubmit and          *)
(* addTeamMember all read `teamMember` / `teamMembers` from their closure   *)
(* and pass a plain value (never an updater function) to the state setter. *)
(*                                                                         *)
(*   Spec       the browser: ReactDOM runs one handler per DOM event and   *)
(*              re-renders synchronously before the next event.            *)
(*   SpecBatch  handlers invoked inside one React batch: the state setters *)
(*              only queue their values, the re-render comes at the end of *)
(*              the batch, so several handler calls see one snapshot.      *)
(***************************************************************************)
EXTENDS Integers, Sequences, FiniteSets, TLC

\* Bounds of the model.
MaxEvents == 3          \* handler invocations in a behaviour
MaxTicks == 2           \* milliseconds the clock advances in a behaviour
StartTime == 10         \* Date.now() when the page is loaded (model scale)

\* The name attributes of the three inputs: the values of e.target.name.
Fields == {"name", "email", "role"}

\* The strings an input can hold: the values of e.target.value.
Values == {"", "Dana", "dana@email.com"}

initialTeamMembers ==
    << [id |-> 1, name |-> "Amy", email |-> "amy@email.com", role |-> "UI/UX Designer"],
       [id |-> 2, name |-> "Bob", email |-> "bob@email.com", role |-> "Marketer"],
       [id |-> 3, name |-> "Chris", email |-> "chris@email.com", role |-> "Front-End Developer"] >>

\* The argument of Form's useState.
initialTeamMember == [name |-> "", email |-> "", role |-> ""]

\* The object literal handleSubmit passes to setTeamMember.
clearedTeamMember == [name |-> "", email |-> "", role |-> ""]

VARIABLES
    teamMembers,          \* App's hook state
    teamMember,           \* Form's hook state (the Draft)
    appQueue,             \* values passed to setTeamMembers, not yet rendered
    formQueue,            \* values passed to setTeamMember, not yet rendered
    capturedTeamMembers,  \* `teamMembers` in the closure of addTeamMember
    capturedTeamMember,   \* `teamMember` in the closure of Form's handlers
    view,                 \* what the last render put on the page
    now,                  \* the value Date.now() returns
    log                   \* the handler invocations so far, in delivery order

vars == << teamMembers, teamMember, appQueue, formQueue, capturedTeamMembers,
           capturedTeamMember, view, now, log >>

Last(s) == s[Len(s)]

----------------------------------------------------------------------------
(* The code, as pure operators.                                            *)

\* { ...obj, [key]: val }
Spread(obj, key, val) ==
    [k \in (DOMAIN obj) \cup {key} |-> IF k = key THEN val ELSE obj[k]]

\* handleChange without the spread: the other fields are not carried over.
handleChangeNoSpread(tm, e) ==
    [k \in Fields |-> IF k = e.name THEN e.value ELSE ""]

\* handleChange: the value it passes to setTeamMember.
handleChange(tm, e) == Spread(tm, e.name, e.value)

\* addTeamMember deriving the id from the form's data instead of the clock.
newTeamMemberIdFromForm(tm, t) ==
    [id |-> Len(tm.name), name |-> tm.name, email |-> tm.email, role |-> tm.role]

\* addTeamMember: the record it builds from its argument.
newTeamMember(tm, t) ==
    [id |-> t, name |-> tm.name, email |-> tm.email, role |-> tm.role]

\* addTeamMember putting the new record first.
addTeamMemberPrepend(tms, tm, t) == << newTeamMember(tm, t) >> \o tms

\* addTeamMember rejecting an all-empty candidate.
addTeamMemberValidating(tms, tm, t) ==
    IF tm.name = "" /\ tm.email = "" /\ tm.role = ""
    THEN tms
    ELSE Append(tms, newTeamMember(tm, t))

\* addTeamMember: the value it passes to setTeamMembers.
addTeamMember(tms, tm, t) == Append(tms, newTeamMember(tm, t))

\* handleSubmit without the reset of the Draft.
handleSubmitNoReset(tm) == tm

\* handleSubmit: the value it passes to setTeamMember after addTeamMember.
handleSubmit(tm) == clearedTeamMember

\* useState: the state after the queued setter values are processed. Every
\* setter call in the code passes a value, so the last one queued wins.
useState(state, queue) == IF queue = << >> THEN state ELSE Last(queue)

\* Form's JSX with the email input bound to the name field.
FormInputsMisbound(tm) == [name |-> tm.name, email |-> tm.name, role |-> tm.role]

\* Form's JSX: the value attribute of each input.
FormInputs(tm) == [name |-> tm.name, email |-> tm.email, role |-> tm.role]

\* TeamMembers' JSX: one keyed block per record, in collection order.
TeamMembersList(tms) ==
    [i \in 1..Len(tms) |->
        [key |-> tms[i].id, h2 |-> tms[i].name,
         email |-> tms[i].email, role |-> tms[i].role]]

\* A render of App and Form from the hook state.
Render(tms, tm) == [inputs |-> FormInputs(tm), list |-> TeamMembersList(tms)]

----------------------------------------------------------------------------
(* What the next render will show: the hook state with the queued setter   *)
(* values applied.                                                         *)
Collection == useState(teamMembers, appQueue)
Draft == useState(teamMember, formQueue)

ChangeEntry(f, v) ==
    [type |-> "change", name |-> f, value |-> v,
     draft |-> Draft, collection |-> Collection, at |-> now]

SubmitEntry ==
    [type |-> "submit", name |-> "", value |-> "",
     draft |-> Draft, collection |-> Collection, at |-> now]

Init ==
    /\ teamMembers = initialTeamMembers
    /\ teamMember = initialTeamMember
    /\ appQueue = << >>
    /\ formQueue = << >>
    /\ capturedTeamMembers = initialTeamMembers
    /\ capturedTeamMember = initialTeamMember
    /\ view = Render(initialTeamMembers, initialTeamMember)
    /\ now = StartTime
    /\ log = << >>

\* React processes the queues and re-renders App and Form: the new closures
\* capture the new state and the page shows it.
Commit(qa, qf) ==
    /\ teamMembers' = useState(teamMembers, qa)
    /\ teamMember' = useState(teamMember, qf)
    /\ appQueue' = << >>
    /\ formQueue' = << >>
    /\ capturedTeamMembers' = teamMembers'
    /\ capturedTeamMember' = teamMember'
    /\ view' = Render(teamMembers', teamMember')

\* The clock advances by a millisecond between two events.
Tick ==
    /\ now < StartTime + MaxTicks
    /\ now' = now + 1
    /\ UNCHANGED << teamMembers, teamMember, appQueue, formQueue,
                    capturedTeamMembers, capturedTeamMember, view, log >>

\* A change event on the input named f whose new content is v, in the
\* browser: handleChange, then the synchronous re-render.
Change(f, v) ==
    /\ Len(log) < MaxEvents
    /\ log' = Append(log, ChangeEntry(f, v))
    /\ Commit(appQueue,
              Append(formQueue, handleChange(capturedTeamMember, [name |-> f, value |-> v])))
    /\ UNCHANGED now

\* A submit event on the form, in the browser: handleSubmit (addTeamMember,
\* then the reset of the Draft), then the synchronous re-render.
Submit ==
    /\ Len(log) < MaxEvents
    /\ log' = Append(log, SubmitEntry)
    /\ Commit(Append(appQueue, addTeamMember(capturedTeamMembers, capturedTeamMember, now)),
              Append(formQueue, handleSubmit(capturedTeamMember)))
    /\ UNCHANGED now

Next ==
    \/ Tick
    \/ \E f \in Fields, v \in Values : Change(f, v)
    \/ Submit

Spec == Init /\ [][Next]_vars

----------------------------------------------------------------------------
(* Handlers invoked inside one React batch.                                *)

BatchChange(f, v) ==
    /\ Len(log) < MaxEvents
    /\ log' = Append(log, ChangeEntry(f, v))
    /\ formQueue' = Append(formQueue,
                           handleChange(capturedTeamMember, [name |-> f, value |-> v]))
    /\ UNCHANGED << teamMembers, teamMember, appQueue, capturedTeamMembers,
                    capturedTeamMember, view, now >>

BatchSubmit ==
    /\ Len(log) < MaxEvents
    /\ log' = Append(log, SubmitEntry)
    /\ appQueue' = Append(appQueue,
                          addTeamMember(capturedTeamMembers, capturedTeamMember, now))
    /\ formQueue' = Append(formQueue, handleSubmit(capturedTeamMember))
    /\ UNCHANGED << teamMembers, teamMember, capturedTeamMembers,
                    capturedTeamMember, view, now >>

\* The batch ends: React re-renders.
Flush ==
    /\ appQueue # << >> \/ formQueue # << >>
    /\ Commit(appQueue, formQueue)
    /\ UNCHANGED << now, log >>

NextBatch ==
    \/ Tick
    \/ \E f \in Fields, v \in Values : BatchChange(f, v)
    \/ BatchSubmit
    \/ Flush

SpecBatch == Init /\ [][NextBatch]_vars

----------------------------------------------------------------------------
(* Reading the log.                                                        *)

IsSubmit(e) == e.type = "submit"
IsChange(e) == e.type = "change"

Submits(l) == SelectSeq(l, IsSubmit)

\* The position in the collection of the record the k-th logged invocation
\* (a submit) is to have appended.
RecordIndex(k) == Len(initialTeamMembers) + Len(Submits(SubSeq(log, 1, k)))

\* The content of input f after the invocations in l: the value of the last
\* change event on f since the last submit, the empty string when none.
RECURSIVE LastTyped(_, _)
LastTyped(l, f) ==
    IF l = << >> THEN ""
    ELSE LET e == Last(l) IN
         IF IsSubmit(e) THEN ""
         ELSE IF e.name = f THEN e.value
         ELSE LastTyped(SubSeq(l, 1, Len(l) - 1), f)

IsPrefix(s, t) == Len(s) <= Len(t) /\ SubSeq(t, 1, Len(s)) = s

AllEmpty(tm) == \A f \in Fields : tm[f] = ""

Clean == AllEmpty(Draft)
Editing == ~Clean

Quiet == appQueue = << >> /\ formQueue = << >>

----------------------------------------------------------------------------
(* The claims.                                                             *)

\* C1: after n calls of addTeamMember (n submits) the collection holds the 3
\* seeded records and n more, the i-th of them the one the i-th call made:
\* no append is lost, also when two calls read the same teamMembers snapshot.
C1_OneRecordPerAppend ==
    LET calls == Submits(log) IN
    /\ Len(Collection) = Len(initialTeamMembers) + Len(calls)
    /\ \A i \in 1..Len(calls) :
          /\ Len(initialTeamMembers) + i <= Len(Collection)
          /\ Collection[Len(initialTeamMembers) + i].id = calls[i].at

\* C2: the ids of the records in the collection are pairwise distinct, for
\* any timing between the appends.
C2_IdsPairwiseDistinct ==
    \A i, j \in 1..Len(teamMembers) :
        i # j => teamMembers[i].id # teamMembers[j].id

\* C3: every submit appended exactly one record at the end of the collection
\* it found, with the name, email and role last typed into the inputs (the
\* Draft at the moment of the submit); the collection each earlier handler
\* found is a prefix of the present one, records and positions kept.
C3_SubmitAppendsDraft ==
    /\ IsPrefix(initialTeamMembers, teamMembers)
    /\ \A k \in 1..Len(log) :
          /\ IsPrefix(log[k].collection, teamMembers)
          /\ IsSubmit(log[k]) =>
                /\ RecordIndex(k) = Len(log[k].collection) + 1
                /\ RecordIndex(k) <= Len(teamMembers)
                /\ \A f \in Fields :
                      /\ teamMembers[RecordIndex(k)][f] = log[k].draft[f]
                      /\ teamMembers[RecordIndex(k)][f] = LastTyped(SubSeq(log, 1, k - 1), f)
    /\ (log # << >> /\ IsSubmit(Last(log))) =>
          Len(teamMembers) = Len(Last(log).collection) + 1

C3_Witness ==
    /\ Len(log) = MaxEvents
    /\ IsSubmit(Last(log))
    /\ Last(log).draft.name = "Dana"
    /\ Last(log).draft.email = "dana@email.com"
    /\ Len(teamMembers) = Len(initialTeamMembers) + 1
    /\ teamMembers[Len(teamMembers)].name = "Dana"

\* C4: after handleChange with target name f and value v the Draft has f
\* equal to v and its other two fields as they were just before the call,
\* also when several changes are delivered against one captured snapshot.
C4_ChangeOverwritesOneField ==
    (log # << >> /\ IsChange(Last(log))) =>
        LET e == Last(log) IN
        /\ Draft[e.name] = e.value
        /\ \A g \in Fields \ {e.name} : Draft[g] = e.draft[g]

\* C5: after handleSubmit the Draft is {name: "", email: "", role: ""},
\* whatever it held before.
C5_SubmitClearsDraft ==
    (log # << >> /\ IsSubmit(Last(log))) =>
        /\ Draft = [name |-> "", email |-> "", role |-> ""]
        /\ teamMember = [name |-> "", email |-> "", role |-> ""]

C5_Witness ==
    /\ log # << >>
    /\ IsSubmit(Last(log))
    /\ ~AllEmpty(Last(log).draft)
    /\ AllEmpty(teamMember)

\* C6: a submit of an all-empty Draft appends a record with empty name,
\* email and role, and of two submits in a row each appends a record, the
\* second one with all fields empty.
C6_NoRejection ==
    \A k \in 1..Len(log) :
        /\ (IsSubmit(log[k]) /\ AllEmpty(log[k].draft)) =>
              /\ RecordIndex(k) <= Len(teamMembers)
              /\ RecordIndex(k) = Len(log[k].collection) + 1
              /\ AllEmpty(teamMembers[RecordIndex(k)])
        /\ (k > 1 /\ IsSubmit(log[k - 1]) /\ IsSubmit(log[k])) =>
              /\ RecordIndex(k) <= Len(teamMembers)
              /\ RecordIndex(k) = RecordIndex(k - 1) + 1
              /\ Len(log[k].collection) = Len(log[k - 1].collection) + 1
              /\ AllEmpty(teamMembers[RecordIndex(k)])

C6_Witness ==
    /\ Len(log) = MaxEvents
    /\ IsSubmit(log[Len(log) - 1])
    /\ IsSubmit(Last(log))
    /\ ~AllEmpty(log[Len(log) - 1].draft)
    /\ Len(teamMembers) = Len(initialTeamMembers) + 2
    /\ AllEmpty(teamMembers[Len(teamMembers)])

\* C7: on the page each input shows the Draft's field of its name; a change
\* event on an input leaves that field of the Draft equal to the input's new
\* content; after a submit the inputs show empty strings.
C7_TwoWayBinding ==
    /\ \A f \in Fields : view.inputs[f] = teamMember[f]
    /\ (log # << >> /\ IsChange(Last(log))) =>
          /\ teamMember[Last(log).name] = Last(log).value
          /\ view.inputs[Last(log).name] = Last(log).value
    /\ (log # << >> /\ IsSubmit(Last(log))) =>
          \A f \in Fields : view.inputs[f] = ""

C7_Witness ==
    /\ Len(log) = MaxEvents
    /\ IsChange(log[1]) /\ log[1].name = "name" /\ log[1].value = "Dana"
    /\ IsChange(Last(log)) /\ Last(log).name = "email"
    /\ view.inputs.email = "dana@email.com"
    /\ view.inputs.name = "Dana"

\* C8 as stated: the form starts Clean (Draft all-empty), after any
\* handleChange it is Editing, after handleSubmit it is Clean.
C8_AnyChangeLeavesEditing ==
    /\ log = << >> => Clean
    /\ (log # << >> /\ IsChange(Last(log))) => Editing
    /\ (log # << >> /\ IsSubmit(Last(log))) => Clean

\* C8, amended: the form starts Clean; after handleChange with a non-empty
\* value it is Editing; after handleChange with the empty string it is Clean
\* exactly when the other two fields were empty before the call; after
\* handleSubmit it is Clean.
C8_CleanEditing ==
    /\ log = << >> => Clean
    /\ (log # << >> /\ IsChange(Last(log))) =>
          LET e == Last(log) IN
          /\ e.value # "" => Editing
          /\ e.value = "" =>
                (Clean <=> \A g \in Fields \ {e.name} : e.draft[g] = "")
    /\ (log # << >> /\ IsSubmit(Last(log))) => Clean

C8_Witness ==
    /\ Len(log) = MaxEvents
    /\ IsChange(log[1]) /\ log[1].value # ""
    /\ IsChange(log[2]) /\ log[2].name # log[1].name /\ log[2].value # ""
    /\ IsChange(log[3]) /\ log[3].name = log[1].name /\ log[3].value = ""
    /\ Editing

\* C9: the Draft has exactly the fields name, email and role, never an id;
\* the id of every appended record is the clock's value at the call, and
\* addTeamMember takes only name, email and role from its argument, whatever
\* else the argument holds.
C9_IdFromStoreOnly ==
    /\ DOMAIN teamMember = {"name", "email", "role"}
    /\ DOMAIN Draft = {"name", "email", "role"}
    /\ \A k \in 1..Len(log) :
          IsSubmit(log[k]) =>
              /\ RecordIndex(k) <= Len(teamMembers)
              /\ teamMembers[RecordIndex(k)].id = log[k].at
    /\ \A v \in Values, i \in {0, 1, now} :
          LET arg == [id |-> i, name |-> v, email |-> v, role |-> v] IN
          newTeamMember(arg, now) =
              [id |-> now, name |-> v, email |-> v, role |-> v]

C9_Witness ==
    /\ Len(log) = MaxEvents
    /\ IsSubmit(Last(log))
    /\ Last(log).draft.name = "Dana"
    /\ Last(log).at = StartTime + 1
    /\ teamMembers[Len(teamMembers)].id = StartTime + 1
    /\ teamMembers[Len(teamMembers)].name = "Dana"

\* C10: along the collection the ids are strictly increasing: every appended
\* record's id is greater than the id of every record before it.
C10_IdsStrictlyIncreasing ==
    \A i, j \in 1..Len(teamMembers) :
        i < j => teamMembers[i].id < teamMembers[j].id

====
